---------------------------- MODULE Spec2Model ----------------------------
(***************************************************************************)
(* Model of MOSAICDATASET: the label utilities of util.py                  *)
(* (convert_objdetect_labels, get_labels_in_rectangle, transform_image)    *)
(* and the MosaicDataSet sampler of mosaicdataset.py.                      *)
(*                                                                         *)
(* Conventions.                                                            *)
(*  - A Python list is a TLA+ tuple, so Python's curLabel[k] is            *)
(*    curLabel[k+1] here.                                                  *)
(*  - A float is an exact rational <<numerator, denominator>> with a       *)
(*    positive denominator.  The inputs use dyadic denominators, for which *)
(*    the float arithmetic of the code is exact.                           *)
(*  - None is the empty tuple and a value v held by a member is <<v>>.     *)
(*  - Pixel values are not modelled: an image is the place its pixels come *)
(*    from (file, rectangle, flips) and its shape.                         *)
(***************************************************************************)
EXTENDS Integers, Sequences, FiniteSets, TLC

VARIABLES self, pc, loc, ret, trials, call

vars == <<self, pc, loc, ret, trials, call>>

--------------------------------------------------------------------------
(* Bounds of the model *)

\* denominator of the normalized label coordinates of the label files
NormDen == 4

\* largest mosaic width and height, in pixels
MaxMosaicDim == 5

\* mosaic widths and heights; convert_objdetect_labels divides by the size minus one
MosaicDims == 2..MaxMosaicDim

\* (imgWidth, imgHeight) of the tiles
TileSizes == {<<3, 2>>}

--------------------------------------------------------------------------
(* Rational arithmetic: Python floats *)

None == <<>>

Some(v) == <<v>>

Rat(n, d) == <<n, d>>

OfInt(n) == <<n, 1>>

RSub(a, b) == <<a[1] * b[2] - b[1] * a[2], a[2] * b[2]>>

RAdd(a, b) == <<a[1] * b[2] + b[1] * a[2], a[2] * b[2]>>

RMul(a, b) == <<a[1] * b[1], a[2] * b[2]>>

RTimesInt(a, k) == <<a[1] * k, a[2]>>

RDivInt(a, k) == <<a[1], a[2] * k>>

RLeq(a, b) == a[1] * b[2] <= b[1] * a[2]

RLess(a, b) == a[1] * b[2] < b[1] * a[2]

REq(a, b) == a[1] * b[2] = b[1] * a[2]

\* Python 3 round(x): to the nearest integer, a tie to the even one
round(a) ==
  LET q == a[1] \div a[2]
      r == a[1] % a[2]
  IN  IF 2 * r < a[2] THEN q
      ELSE IF 2 * r > a[2] THEN q + 1
      ELSE IF q % 2 = 0 THEN q ELSE q + 1

\* Python int(x): truncation toward zero
int(a) ==
  IF a[1] >= 0 THEN a[1] \div a[2] ELSE -((-a[1]) \div a[2])

Max(a, b) == IF a >= b THEN a ELSE b

Min(a, b) == IF a <= b THEN a ELSE b

--------------------------------------------------------------------------
(* util.py: convert_objdetect_labels *)

\* util.py:154
ToAbsoluteArea(curLabel, imgWidth, imgHeight) ==
  round(RMul(RTimesInt(curLabel[4], imgWidth), RTimesInt(curLabel[5], imgHeight)))

\* util.py:149-154, one label, YOLOv5 to ABSOLUTE
ToAbsolute(curLabel, imgWidth, imgHeight) ==
  << int(curLabel[1]),
     round(RTimesInt(RSub(curLabel[2], RDivInt(curLabel[4], 2)), imgWidth - 1)),
     round(RTimesInt(RSub(curLabel[3], RDivInt(curLabel[5], 2)), imgHeight - 1)),
     round(RTimesInt(RAdd(curLabel[2], RDivInt(curLabel[4], 2)), imgWidth - 1)),
     round(RTimesInt(RAdd(curLabel[3], RDivInt(curLabel[5], 2)), imgHeight - 1)),
     ToAbsoluteArea(curLabel, imgWidth, imgHeight) >>

\* a converter whose centre is the sum of the two sides, not their mean
ToNormalizedSumAsCentre(curLabel, imgWidth, imgHeight) ==
  << curLabel[1],
     Rat(curLabel[2] + curLabel[4], imgWidth - 1),
     Rat(curLabel[3] + curLabel[5], imgHeight - 1),
     Rat(curLabel[4] - curLabel[2], imgWidth - 1),
     Rat(curLabel[5] - curLabel[3], imgHeight - 1) >>

\* util.py:157-161, one label, ABSOLUTE to YOLOv5 (imgWidth, imgHeight >= 2)
ToNormalized(curLabel, imgWidth, imgHeight) ==
  << curLabel[1],
     Rat(curLabel[2] + curLabel[4], 2 * (imgWidth - 1)),
     Rat(curLabel[3] + curLabel[5], 2 * (imgHeight - 1)),
     Rat(curLabel[4] - curLabel[2], imgWidth - 1),
     Rat(curLabel[5] - curLabel[3], imgHeight - 1) >>

\* util.py:147-164
convert_objdetect_labels(theLabels, imgWidth, imgHeight, theConversion) ==
  CASE theConversion = 0 ->
         [k \in 1..Len(theLabels) |-> ToAbsolute(theLabels[k], imgWidth, imgHeight)]
    [] theConversion = 1 ->
         [k \in 1..Len(theLabels) |-> ToNormalized(theLabels[k], imgWidth, imgHeight)]
    [] OTHER -> <<"sys.exit">>

--------------------------------------------------------------------------
(* util.py: get_labels_in_rectangle *)

\* util.py:186
IsCandidate(curLabel, xLeft, yTop, xRight, yBottom) ==
  /\ curLabel[4] >= xLeft
  /\ curLabel[2] < xRight
  /\ curLabel[5] >= yTop
  /\ curLabel[3] < yBottom

\* util.py:188-191 and 193: the clipped box, relative to the rectangle
Clipped(curLabel, xLeft, yTop, xRight, yBottom) ==
  LET lxLeft == Max(0, curLabel[2] - xLeft)
      lyTop == Max(0, curLabel[3] - yTop)
      lxRight == Min(xRight - xLeft, curLabel[4] - xLeft)
      lyBottom == Min(yBottom - yTop, curLabel[5] - yTop)
  IN  [lxLeft |-> lxLeft, lyTop |-> lyTop, lxRight |-> lxRight, lyBottom |-> lyBottom,
       theArea |-> (lxRight - lxLeft) * (lyBottom - lyTop)]

\* util.py:199, areaRatio >= minPct with areaRatio = theArea / curLabel[5]
AreaLargeEnough(theArea, labelArea, minPct) ==
  theArea * minPct[2] >= minPct[1] * labelArea

\* util.py:184-200, the loop from label k on
RECURSIVE ScanLabels(_, _, _, _, _, _, _, _, _)
ScanLabels(theLabels, k, xLeft, yTop, xRight, yBottom, minPct, rejectPartial, outLabels) ==
  IF k > Len(theLabels)
  THEN [outLabels |-> outLabels, isPartial |-> FALSE, raised |-> "none"]
  ELSE
    LET curLabel == theLabels[k]
        c == Clipped(curLabel, xLeft, yTop, xRight, yBottom)
    IN  IF ~IsCandidate(curLabel, xLeft, yTop, xRight, yBottom)
        THEN ScanLabels(theLabels, k + 1, xLeft, yTop, xRight, yBottom,
                        minPct, rejectPartial, outLabels)
        ELSE IF curLabel[6] = 0
        THEN [outLabels |-> outLabels, isPartial |-> FALSE, raised |-> "ZeroDivisionError"]
        ELSE IF rejectPartial /\ c.theArea < curLabel[6]
        THEN [outLabels |-> outLabels, isPartial |-> TRUE, raised |-> "none"]
        ELSE IF AreaLargeEnough(c.theArea, curLabel[6], minPct)
        THEN ScanLabels(theLabels, k + 1, xLeft, yTop, xRight, yBottom, minPct, rejectPartial,
                        Append(outLabels, <<curLabel[1], c.lxLeft, c.lyTop,
                                            c.lxRight, c.lyBottom, c.theArea>>))
        ELSE ScanLabels(theLabels, k + 1, xLeft, yTop, xRight, yBottom,
                        minPct, rejectPartial, outLabels)

\* util.py:181-201
get_labels_in_rectangle(theLabels, xLeft, yTop, xRight, yBottom, minPct, rejectPartial) ==
  ScanLabels(theLabels, 1, xLeft, yTop, xRight, yBottom, minPct, rejectPartial, <<>>)

--------------------------------------------------------------------------
(* util.py: transform_image (the flips; brightness and vigneting change   *)
(* pixel values only, and return a new array)                             *)

\* util.py:104; shape is (rows, columns)
FlipLabelsLR(theLabels, shape) ==
  [k \in 1..Len(theLabels) |->
     << theLabels[k][1], shape[2] - 1 - theLabels[k][4], theLabels[k][3],
        shape[2] - 1 - theLabels[k][2], theLabels[k][5], theLabels[k][6] >>]

\* a vertical flip that mirrors about the number of columns
FlipLabelsUDByColumns(theLabels, shape) ==
  [k \in 1..Len(theLabels) |->
     << theLabels[k][1], theLabels[k][2], shape[2] - 1 - theLabels[k][5],
        theLabels[k][4], shape[2] - 1 - theLabels[k][3], theLabels[k][6] >>]

\* util.py:110
FlipLabelsUD(theLabels, shape) ==
  [k \in 1..Len(theLabels) |->
     << theLabels[k][1], theLabels[k][2], shape[1] - 1 - theLabels[k][5],
        theLabels[k][4], shape[1] - 1 - theLabels[k][3], theLabels[k][6] >>]

\* util.py:98-116
transform_image(theImage, theLabels, flipValue) ==
  LET lr == (flipValue % 2) # 0
      ud == ((flipValue \div 2) % 2) # 0
      image1 == IF lr THEN [theImage EXCEPT !.fliplr = ~@] ELSE theImage
      labels1 == IF lr THEN FlipLabelsLR(theLabels, image1.shape) ELSE theLabels
      image2 == IF ud THEN [image1 EXCEPT !.flipud = ~@] ELSE image1
      labels2 == IF ud THEN FlipLabelsUD(labels1, image2.shape) ELSE labels1
  IN  [theImage |-> image2, theLabels |-> labels2]

--------------------------------------------------------------------------
(* Inputs: label files (YOLOv5 rows, as np.loadtxt reads them) *)

\* (centre, size) numerators of a box side that lies inside the image
NormCoords ==
  {x \in (0..NormDen) \X (1..NormDen) : 2 * x[1] - x[2] >= 0 /\ 2 * x[1] + x[2] <= 2 * NormDen}

NormLabel(cls, x, y) ==
  << OfInt(cls), Rat(x[1], NormDen), Rat(y[1], NormDen), Rat(x[2], NormDen), Rat(y[2], NormDen) >>

PairCoords == {x \in NormCoords : x[2] = 2}

\* the label files of the utility specification: none, one or two rows
UtilFiles ==
  {<<>>}
  \cup {<<NormLabel(0, x, y)>> : x \in NormCoords, y \in NormCoords}
  \cup {<<NormLabel(0, p[1], p[2]), NormLabel(1, p[3], p[4])>> :
          p \in PairCoords \X PairCoords \X PairCoords \X PairCoords}

\* minPct / minArea values
MinAreas == {Rat(0, 1), Rat(1, 2), Rat(1, 1)}

--------------------------------------------------------------------------
(* mosaicdataset.py: MosaicDataSet.  self is the attribute dictionary of   *)
(* the object: DOMAIN self is the set of attributes that exist.            *)

\* mosaicdataset.py:40-64, the attributes clean() assigns
CleanMembers ==
  {"_mosaicFileName", "_labelsFileName", "_imgWidth", "_imgHeight",
   "_mosaicXRatioMin", "_mosaicXRatioMax", "_mosaicYRatioMin", "_mosaicYRatiomax",
   "_minLabels", "_minArea", "_maxIter", "_brightScale", "_minVSigma", "_maxVSigma",
   "_minVX", "_maxVX", "_minVY", "_maxVY", "_theMosaic", "_theLabels",
   "_mosaicWidth", "_mosaicHeight", "_mosaicXMin", "_mosaicXMax", "_rejectPartial"}

\* mosaicdataset.py:39-64
clean(obj) ==
  [n \in (DOMAIN obj) \cup CleanMembers |-> IF n \in CleanMembers THEN None ELSE obj[n]]

\* mosaicdataset.py:32-33: clean() on an object without attributes
Constructed == [n \in CleanMembers |-> None]

\* attribute assignment, self.n = v
Put(obj, n, v) ==
  [m \in (DOMAIN obj) \cup {n} |-> IF m = n THEN Some(v) ELSE obj[m]]

RECURSIVE PutAll(_, _)
\* the assignments of the sequence kv, <<name, value>> each, in order
PutAll(obj, kv) ==
  IF kv = <<>> THEN obj ELSE PutAll(Put(obj, kv[1][1], kv[1][2]), Tail(kv))

\* mosaicdataset.py:131-139
set_mosaic_ratio(obj, mosaicXRatioMin, mosaicXRatioMax, mosaicYRatioMin, mosaicYRatioMax) ==
  PutAll(obj,
    << <<"_mosaicXRatioMin", mosaicXRatioMin>>,
       <<"_mosaicXRatioMax", mosaicXRatioMax>>,
       <<"_mosaicYRatioMin", mosaicYRatioMin>>,
       <<"_mosaicYRatioMax", mosaicYRatioMax>>,
       <<"_mosaicXMin", RTimesInt(mosaicXRatioMin, obj["_mosaicWidth"][1])>>,
       <<"_mosaicXMax", RTimesInt(mosaicXRatioMax, obj["_mosaicWidth"][1])>>,
       <<"_mosaicYMin", RTimesInt(mosaicYRatioMin, obj["_mosaicHeight"][1])>>,
       <<"_mosaicYMax", RTimesInt(mosaicYRatioMax, obj["_mosaicHeight"][1])>> >>)

\* mosaicdataset.py:96-123.  mosaicFile is the image file and the label file of
\* one mosaic: [name, width, height, rows].  imread gives an array of shape
\* (height, width); np.loadtxt gives the rows.  The augmentation parameters
\* take their default values.
create(obj, mosaicFile, imgWidth, imgHeight, mosaicXRatioMin, mosaicXRatioMax, mosaicYRatioMin, mosaicYRatioMax, minLabels, minArea, maxIter, rejectPartial) ==
  LET theMosaic == [file |-> mosaicFile.name, shape |-> <<mosaicFile.height, mosaicFile.width>>]
      stored ==
        PutAll(obj,
          << <<"_mosaicFileName", mosaicFile.name>>,
             <<"_labelsFileName", mosaicFile.name>>,
             <<"_imgWidth", imgWidth>>,
             <<"_imgHeight", imgHeight>>,
             <<"_minLabels", minLabels>>,
             <<"_minArea", minArea>>,
             <<"_maxIter", maxIter>>,
             <<"_brightScale", Rat(1, 10)>>,
             <<"_minVSigma", Rat(1, 2)>>,
             <<"_maxVSigma", Rat(5, 4)>>,
             <<"_minVX", Rat(2, 5)>>,
             <<"_maxVX", Rat(3, 5)>>,
             <<"_minVY", Rat(2, 5)>>,
             <<"_maxVY", Rat(3, 5)>>,
             <<"_rejectPartial", rejectPartial>>,
             <<"_theMosaic", theMosaic>>,
             <<"_theLabels", convert_objdetect_labels(mosaicFile.rows, theMosaic.shape[2],
                                                      theMosaic.shape[1], 0)>>,
             <<"_mosaicWidth", theMosaic.shape[2]>>,
             <<"_mosaicHeight", theMosaic.shape[1]>> >>)
  IN  set_mosaic_ratio(stored, mosaicXRatioMin, mosaicXRatioMax,
                       mosaicYRatioMin, mosaicYRatioMax)

\* a draw that falls back on int(low) when the interval is empty
randintOrLow(low, high) ==
  IF int(low) > int(high) - 1 THEN {int(low)} ELSE int(low)..(int(high) - 1)

\* np.random.randint(low, high) on scalars: the integers of [int(low), int(high)),
\* none when int(low) >= int(high) (ValueError: low >= high)
randint(low, high) ==
  LET lo == int(low)
      hi == int(high) - 1
  IN  IF lo > hi THEN {} ELSE lo..hi

\* a test that records only while nothing with labels is recorded
IsNewBestWhenNone(numLabels, maxLabels) == maxLabels = 0

\* a test that never records a trial without labels
IsNewBestStrict(numLabels, maxLabels) == numLabels > maxLabels

\* mosaicdataset.py:170
IsNewBest(numLabels, maxLabels) == numLabels > maxLabels \/ maxLabels = 0

--------------------------------------------------------------------------
(* SpecUtil: the functions of util.py applied as the sampler chains them:  *)
(* direction 0 on a label file, then the rectangle search, then the flips, *)
(* and direction 1 on the output of direction 0.                           *)

UtilInputs ==
  {[fn |-> "input", theLabels |-> f, imgWidth |-> w, imgHeight |-> h] :
     f \in UtilFiles, w \in MosaicDims, h \in MosaicDims}

\* convert_objdetect_labels(theLabels, imgWidth, imgHeight, 0)
UtilToAbsolute ==
  /\ call.fn = "input"
  /\ call' = [call EXCEPT !.fn = "toAbsolute"]
  /\ ret' = convert_objdetect_labels(call.theLabels, call.imgWidth, call.imgHeight, 0)
  /\ UNCHANGED <<self, pc, loc, trials>>

\* convert_objdetect_labels(., imgWidth, imgHeight, 1) on the output of direction 0
UtilToNormalized ==
  /\ call.fn = "toAbsolute"
  /\ call' = [fn |-> "toNormalized", theLabels |-> ret, imgWidth |-> call.imgWidth,
              imgHeight |-> call.imgHeight, yolo |-> call.theLabels]
  /\ ret' = convert_objdetect_labels(ret, call.imgWidth, call.imgHeight, 1)
  /\ UNCHANGED <<self, pc, loc, trials>>

\* get_labels_in_rectangle on the output of direction 0, for a tile-sized rectangle
UtilClip ==
  /\ call.fn = "toAbsolute"
  /\ \E t \in TileSizes, minPct \in MinAreas, rejectPartial \in BOOLEAN :
       \E xLeft \in 0..(call.imgWidth - t[1]), yTop \in 0..(call.imgHeight - t[2]) :
         /\ call' = [fn |-> "clip", theLabels |-> ret, xLeft |-> xLeft, yTop |-> yTop,
                     xRight |-> xLeft + t[1], yBottom |-> yTop + t[2],
                     minPct |-> minPct, rejectPartial |-> rejectPartial]
         /\ ret' = get_labels_in_rectangle(ret, xLeft, yTop, xLeft + t[1], yTop + t[2],
                                           minPct, rejectPartial)
  /\ UNCHANGED <<self, pc, loc, trials>>

\* transform_image on the tile and the labels of the rectangle search
UtilTransform ==
  /\ call.fn = "clip"
  /\ ret.raised = "none"
  /\ \E flipValue \in 0..3 :
       LET theImage == [shape |-> <<call.yBottom - call.yTop, call.xRight - call.xLeft>>,
                        fliplr |-> FALSE, flipud |-> FALSE]
       IN  /\ call' = [fn |-> "transform", theLabels |-> ret.outLabels, theImage |-> theImage,
                       flipValue |-> flipValue, clip |-> call]
           /\ ret' = transform_image(theImage, ret.outLabels, flipValue)
  /\ UNCHANGED <<self, pc, loc, trials>>

UtilNext == UtilToAbsolute \/ UtilClip \/ UtilTransform \/ UtilToNormalized

UtilInit ==
  /\ call \in UtilInputs
  /\ ret = None
  /\ self = Constructed
  /\ pc = "idle"
  /\ loc = None
  /\ trials = {}

SpecUtil == UtilInit /\ [][UtilNext]_vars

--------------------------------------------------------------------------
(* Spec: the sampler.  pc is the place of the call in progress: "search"   *)
(* is the head of the inner loop of get_image (line 158), "finish" is line *)
(* 178; "idle", "done" and "raised" are the places between two calls.      *)
(* call is the last method called, loc the local variables of get_image,   *)
(* ret what the last call returned or raised, and trials the rectangles    *)
(* and label counts of the trials of the get_image call (history).         *)

\* largest minLabels and maxIter of a create call
MaxMinLabels == 2

MaxIter == 2

\* the ratios of the sampling region
Ratios == {Rat(0, 2), Rat(1, 2), Rat(2, 2)}

\* (min, max) ratio pairs of the sampling region, per axis
XRegions == {<<Rat(0, 2), Rat(2, 2)>>, <<Rat(1, 2), Rat(2, 2)>>}

YRegions == {r \in Ratios \X Ratios : RLess(r[1], r[2])}

SamplerMinAreas == {Rat(1, 2)}

SamplerCoords == {x \in NormCoords : x[1] <= 2 /\ x[2] <= 2}

\* label files of the sampler: np.loadtxt gives rows for no line or for two and
\* more lines (one line gives a one-dimensional array, which create cannot use)
SamplerRows ==
  {<<>>}
  \cup {<<NormLabel(0, x, y), NormLabel(1, y, x)>> : x \in SamplerCoords, y \in SamplerCoords}

MosaicFiles ==
  {[name |-> <<sz, rows>>, width |-> sz[1], height |-> sz[2], rows |-> rows] :
     sz \in {<<MaxMosaicDim, MaxMosaicDim - 1>>, <<MaxMosaicDim - 1, MaxMosaicDim>>},
     rows \in SamplerRows}

Returned == {"idle", "done", "raised"}

\* create has run and clean has not: the state Ready
Ready == self["_theMosaic"] # None

Member(n) == self[n][1]

\* create overwrites every member it or a later call reads, so that it leads to the
\* same states from a Ready sampler as from a cleaned one: the calls are taken in
\* the order of the life cycle (create_dataset.py:120, 175, 184)
Create ==
  /\ pc \in Returned
  /\ ~Ready
  /\ \E mosaicFile \in MosaicFiles, t \in TileSizes, rx \in XRegions,
        ry \in YRegions, minLabels \in 0..MaxMinLabels,
        minArea \in SamplerMinAreas, maxIter \in 0..MaxIter, rejectPartial \in BOOLEAN :
       self' = create(self, mosaicFile, t[1], t[2], rx[1], rx[2], ry[1], ry[2],
                      minLabels, minArea, maxIter, rejectPartial)
  /\ pc' = "idle"
  /\ call' = [fn |-> "create"]
  /\ loc' = None
  /\ ret' = None
  /\ trials' = {}

SetMosaicRatio ==
  /\ pc \in Returned
  /\ Ready
  /\ \E rx \in XRegions, ry \in YRegions :
       self' = set_mosaic_ratio(self, rx[1], rx[2], ry[1], ry[2])
  /\ pc' = "idle"
  /\ call' = [fn |-> "set_mosaic_ratio"]
  /\ loc' = None
  /\ ret' = None
  /\ trials' = {}

Clean ==
  /\ pc \in Returned
  /\ self' = clean(self)
  /\ pc' = "idle"
  /\ call' = [fn |-> "clean"]
  /\ loc' = None
  /\ ret' = None
  /\ trials' = {}

\* mosaicdataset.py:151-153: the call, up to the first test of the for loop
GetImageCall ==
  /\ pc \in Returned
  /\ Ready
  /\ \E lblFormat \in {0, 1} :
       /\ call' = [fn |-> "get_image", lblFormat |-> lblFormat]
       /\ loc' = [i |-> 0, maxLabels |-> 0, bestRect |-> None, bestLabels |-> None,
                  rect |-> None, isPartial |-> FALSE]
  /\ pc' = IF Member("_maxIter") > 0 THEN "search" ELSE "finish"
  /\ ret' = None
  /\ trials' = {}
  /\ UNCHANGED self

Raise(error) ==
  /\ pc' = "raised"
  /\ ret' = [raised |-> error]
  /\ loc' = None
  /\ UNCHANGED <<self, call, trials>>

\* an inner loop that never draws again
DoSearchNever(rejectPartial, isPartial) == FALSE

\* mosaicdataset.py:167
DoSearch(rejectPartial, isPartial) == rejectPartial /\ isPartial

\* mosaicdataset.py:168-176: the end of a trial, with the rectangle and labels found
EndTrial(rect, curLabels) ==
  LET numLabels == Len(curLabels)
      best == IF IsNewBest(numLabels, loc.maxLabels)
              THEN [loc EXCEPT !.maxLabels = numLabels, !.bestRect = Some(rect),
                               !.bestLabels = Some(curLabels),
                               !.rect = Some(rect), !.isPartial = FALSE]
              ELSE [loc EXCEPT !.rect = Some(rect), !.isPartial = FALSE]
  IN  /\ trials' = trials \cup {[rect |-> rect, numLabels |-> numLabels]}
      /\ IF numLabels >= Member("_minLabels")
         THEN loc' = best /\ pc' = "finish"
         ELSE IF loc.i + 1 < Member("_maxIter")
         THEN loc' = [best EXCEPT !.i = @ + 1] /\ pc' = "search"
         ELSE loc' = best /\ pc' = "finish"
      /\ UNCHANGED <<self, call, ret>>

\* mosaicdataset.py:158-176: one pass of the inner loop and, when it ends the
\* inner loop, the rest of the body of the for loop
GetImageTrial ==
  /\ pc = "search"
  /\ LET xs == randint(Member("_mosaicXMin"),
                       RSub(Member("_mosaicXMax"), OfInt(Member("_imgWidth"))))
         ys == randint(Member("_mosaicYMin"),
                       RSub(Member("_mosaicYMax"), OfInt(Member("_imgHeight"))))
     IN  IF xs = {} \/ ys = {}
         THEN Raise("ValueError")
         ELSE \E xLeft \in xs, yTop \in ys :
                LET xRight == xLeft + Member("_imgWidth")
                    yBottom == yTop + Member("_imgHeight")
                    rect == <<xLeft, yTop, xRight, yBottom>>
                    found == get_labels_in_rectangle(Member("_theLabels"), xLeft, yTop,
                               xRight, yBottom, Member("_minArea"), Member("_rejectPartial"))
                IN  IF found.raised # "none"
                    THEN Raise(found.raised)
                    ELSE IF DoSearch(Member("_rejectPartial"), found.isPartial)
                    THEN /\ loc' = [loc EXCEPT !.rect = Some(rect), !.isPartial = TRUE]
                         /\ UNCHANGED <<self, pc, call, ret, trials>>
                    ELSE EndTrial(rect, found.outLabels)

\* theArray[a:b] of an axis of n elements, 0 <= a <= b: the number of elements
SliceLen(a, b, n) == Max(0, Min(b, n) - Min(a, n))

\* the labels as rows of floats
RECURSIVE AsFloats(_)
AsFloats(row) == IF row = <<>> THEN <<>> ELSE <<OfInt(row[1])>> \o AsFloats(Tail(row))

\* mosaicdataset.py:182
ConvertOutput(theLabels, imgWidth, imgHeight, lblFormat) ==
  IF lblFormat = 0
  THEN convert_objdetect_labels([k \in 1..Len(theLabels) |-> AsFloats(theLabels[k])],
                                imgWidth, imgHeight, lblFormat)
  ELSE convert_objdetect_labels(theLabels, imgWidth, imgHeight, lblFormat)

\* a get_image that keeps the labels it returns
StoredAfterGetImageKept(obj, theLabels) == Put(obj, "_theLabels", theLabels)

\* mosaicdataset.py:151-187: get_image assigns no attribute, and the arrays and
\* lists it works on are new ones (util.py:104, 110, 112; util.py:200)
StoredAfterGetImage(obj, theLabels) == obj

\* mosaicdataset.py:178-187
GetImageFinish ==
  /\ pc = "finish"
  /\ IF loc.bestRect = None
     THEN Raise("UnboundLocalError")
     ELSE \E flipValue \in 0..3 :
            LET bestRect == loc.bestRect[1]
                theMosaic == Member("_theMosaic")
                outImage == [file |-> theMosaic.file, rect |-> bestRect,
                             shape |-> <<SliceLen(bestRect[2], bestRect[4], theMosaic.shape[1]),
                                         SliceLen(bestRect[1], bestRect[3], theMosaic.shape[2])>>,
                             fliplr |-> FALSE, flipud |-> FALSE]
                t == transform_image(outImage, loc.bestLabels[1], flipValue)
            IN  /\ ret' = [raised |-> "none", outImage |-> t.theImage, flipValue |-> flipValue,
                           bestLabels |-> ConvertOutput(t.theLabels, Member("_imgWidth"),
                                            Member("_imgHeight"), call.lblFormat)]
                /\ self' = StoredAfterGetImage(self, t.theLabels)
                /\ pc' = "done"
                /\ loc' = None
                /\ UNCHANGED <<call, trials>>

Init ==
  /\ self = Constructed
  /\ pc = "idle"
  /\ call = [fn |-> "__init__"]
  /\ loc = None
  /\ ret = None
  /\ trials = {}

Next ==
  \/ Create
  \/ SetMosaicRatio
  \/ Clean
  \/ GetImageCall
  \/ GetImageTrial
  \/ GetImageFinish

Spec == Init /\ [][Next]_vars

--------------------------------------------------------------------------
(* Claims *)

Range(f) == {f[k] : k \in DOMAIN f}

RectOfTile == ret.outImage.rect

Returned1 == pc = "done" /\ call.fn = "get_image"

\* the rectangle r holds less than the whole box of label l
Cuts(r, l) ==
  /\ IsCandidate(l, r[1], r[2], r[3], r[4])
  /\ Clipped(l, r[1], r[2], r[3], r[4]).theArea < (l[4] - l[2]) * (l[5] - l[3])

\* C1: with rejectPartial, the rectangle of every returned tile is one for which
\* get_labels_in_rectangle reports no partial label, and no mosaic label that
\* overlaps it is cut by it.
C1_ReturnedTileCutsNoLabel ==
  (Returned1 /\ Member("_rejectPartial")) =>
    LET r == RectOfTile
        theLabels == Member("_theLabels")
    IN  /\ ~get_labels_in_rectangle(theLabels, r[1], r[2], r[3], r[4],
                                    Member("_minArea"), TRUE).isPartial
        /\ \A l \in Range(theLabels) : ~Cuts(r, l)

\* C2: the rectangle of every returned tile lies inside the sampling region set
\* by the most recent create or set_mosaic_ratio.
C2_TileInsideRegion ==
  Returned1 =>
    /\ RLeq(Member("_mosaicXMin"), OfInt(RectOfTile[1]))
    /\ RLeq(OfInt(RectOfTile[3]), Member("_mosaicXMax"))
    /\ RLeq(Member("_mosaicYMin"), OfInt(RectOfTile[2]))
    /\ RLeq(OfInt(RectOfTile[4]), Member("_mosaicYMax"))

\* the for loop of the get_image call ended without a trial that reached minLabels
Exhausted ==
  /\ call.fn = "get_image"
  /\ pc = "done" \/ (pc = "raised" /\ ret.raised = "UnboundLocalError")
  /\ \A t \in trials : t.numLabels < Member("_minLabels")

\* the returned tile is the one of a trial with the largest label count of all trials
BestSeenReturned ==
  /\ pc = "done"
  /\ \E t \in trials :
       /\ t.rect = RectOfTile
       /\ t.numLabels = Len(ret.bestLabels)
       /\ \A u \in trials : u.numLabels <= t.numLabels

WellFormed(l) ==
  /\ l[2] <= l[4]
  /\ l[3] <= l[5]
  /\ l[6] = (l[4] - l[2]) * (l[5] - l[3])

\* C4: every ABSOLUTE label output by direction 0 of convert_objdetect_labels, by
\* get_labels_in_rectangle and by transform_image has xLeft <= xRight,
\* yTop <= yBottom and area = (xRight - xLeft) * (yBottom - yTop).
C4_AbsoluteLabelsWellFormed ==
  /\ call.fn = "toAbsolute" => \A l \in Range(ret) : WellFormed(l)
  /\ call.fn = "clip" => \A l \in Range(ret.outLabels) : WellFormed(l)
  /\ call.fn = "transform" => \A l \in Range(ret.theLabels) : WellFormed(l)

Contains(c, l) ==
  /\ c.xLeft <= l[2]
  /\ l[4] <= c.xRight
  /\ c.yTop <= l[3]
  /\ l[5] <= c.yBottom

\* C5: a label whose box a rectangle fully contains is returned by
\* get_labels_in_rectangle with its size and area, translated to the rectangle,
\* and is not reported as partial, for both values of rejectPartial.
C5_ContainedLabelKept ==
  call.fn = "clip" =>
    \A l \in Range(call.theLabels) :
      Contains(call, l) =>
        get_labels_in_rectangle(<<l>>, call.xLeft, call.yTop, call.xRight, call.yBottom,
                                call.minPct, call.rejectPartial)
          = [outLabels |-> << <<l[1], l[2] - call.xLeft, l[3] - call.yTop,
                                 l[4] - call.xLeft, l[5] - call.yTop, l[6]>> >>,
             isPartial |-> FALSE, raised |-> "none"]

\* the boxes of label l and of the rectangle of call c share no area
ZeroOverlap(c, l) ==
  \/ Min(l[4], c.xRight) - Max(l[2], c.xLeft) <= 0
  \/ Min(l[5], c.yBottom) - Max(l[3], c.yTop) <= 0

\* C6: get_labels_in_rectangle outputs no label whose box has zero overlap with
\* the rectangle, for every minAreaRatio and both values of rejectPartial.
C6_ZeroOverlapExcluded ==
  call.fn = "clip" =>
    \A l \in Range(call.theLabels) :
      ZeroOverlap(call, l) =>
        get_labels_in_rectangle(<<l>>, call.xLeft, call.yTop, call.xRight, call.yBottom,
                                call.minPct, call.rejectPartial).outLabels = <<>>

InUnit(a) == 0 <= a[1] /\ a[1] <= a[2]

\* C7: every label get_image returns in the normalized format has xCenter,
\* yCenter, width and height within [0,1].
C7_NormalizedWithinUnit ==
  (Returned1 /\ call.lblFormat = 1) =>
    \A l \in Range(ret.bestLabels) :
      InUnit(l[2]) /\ InUnit(l[3]) /\ InUnit(l[4]) /\ InUnit(l[5])

RAbsDiffLeq(a, b, tol) == RLeq(RSub(a, b), tol) /\ RLeq(RSub(b, a), tol)

\* C8: direction 0 and then direction 1 of convert_objdetect_labels, with the same
\* image size, give back the class, and xCenter, yCenter, width and height within
\* one pixel: 1/(imgWidth-1) horizontally, 1/(imgHeight-1) vertically.
C8_RoundTripWithinOnePixel ==
  call.fn = "toNormalized" =>
    /\ Len(ret) = Len(call.yolo)
    /\ \A k \in 1..Len(ret) :
         /\ OfInt(ret[k][1]) = call.yolo[k][1]
         /\ RAbsDiffLeq(ret[k][2], call.yolo[k][2], Rat(1, call.imgWidth - 1))
         /\ RAbsDiffLeq(ret[k][3], call.yolo[k][3], Rat(1, call.imgHeight - 1))
         /\ RAbsDiffLeq(ret[k][4], call.yolo[k][4], Rat(1, call.imgWidth - 1))
         /\ RAbsDiffLeq(ret[k][5], call.yolo[k][5], Rat(1, call.imgHeight - 1))

\* a round trip of two labels in which the rounding of direction 0 changed a centre
C8_Witness ==
  /\ call.fn = "toNormalized"
  /\ Len(ret) = 2
  /\ ~REq(ret[1][2], call.yolo[1][2])
  /\ ret[2][1] = 1

\* C9: a step of get_image leaves every attribute of the sampler (the mosaic, the
\* label list, the region, the configuration) as it was, and the sampler Ready.
C9_GetImageReadsOnly ==
  [][(GetImageCall \/ GetImageTrial \/ GetImageFinish) => (self' = self /\ Ready')]_vars

\* get_image has returned a tile flipped both ways with labels in ABSOLUTE format
C9_Witness ==
  /\ Returned1
  /\ ret.flipValue = 3
  /\ call.lblFormat = 0
  /\ ret.bestLabels # <<>>
  /\ Ready

\* C10: after clean() every attribute of the sampler is None.
C10_CleanClearsEveryMember ==
  call.fn = "clean" => \A n \in DOMAIN self : self[n] = None

\* the positions get_image can draw (mosaicdataset.py:160-161)
DrawX ==
  randint(Member("_mosaicXMin"), RSub(Member("_mosaicXMax"), OfInt(Member("_imgWidth"))))

DrawY ==
  randint(Member("_mosaicYMin"), RSub(Member("_mosaicYMax"), OfInt(Member("_imgHeight"))))

\* what the rectangle search of get_image finds for the tile drawn at (xLeft, yTop)
FoundAt(xLeft, yTop) ==
  get_labels_in_rectangle(Member("_theLabels"), xLeft, yTop, xLeft + Member("_imgWidth"),
                          yTop + Member("_imgHeight"), Member("_minArea"),
                          Member("_rejectPartial"))

\* a draw of (xLeft, yTop) ends the inner loop of get_image with a rectangle
EndsInnerLoop(xLeft, yTop) ==
  /\ FoundAt(xLeft, yTop).raised = "none"
  /\ ~(Member("_rejectPartial") /\ FoundAt(xLeft, yTop).isPartial)

\* C11: with minLabels = 0 and maxIter >= 1, on a region larger than the tile,
\* get_image raises nothing, can always leave its inner loop, runs one trial of
\* the outer loop and returns after exactly that trial.
C11_FirstTrialReturnsWithoutMinimum ==
  (/\ call.fn = "get_image"
   /\ Member("_minLabels") = 0
   /\ Member("_maxIter") >= 1
   /\ DrawX # {}
   /\ DrawY # {}) =>
    /\ pc # "raised"
    /\ Cardinality(trials) <= 1
    /\ pc = "done" => Cardinality(trials) = 1
    /\ pc = "search" => \E xLeft \in DrawX, yTop \in DrawY : EndsInnerLoop(xLeft, yTop)

\* get_image is in its inner loop, rejects partial labels, and the rectangle
\* search reports a partial label for every tile of the sampling region
Stuck ==
  /\ call.fn = "get_image"
  /\ pc = "search"
  /\ Member("_rejectPartial")
  /\ DrawX # {}
  /\ DrawY # {}
  /\ \A xLeft \in DrawX, yTop \in DrawY :
       FoundAt(xLeft, yTop).raised = "none" /\ FoundAt(xLeft, yTop).isPartial

\* C12: with rejectPartial, when every tile of the region has a partial label,
\* each draw of get_image leads back to the inner loop: no trial of the outer
\* loop is counted against maxIter, nothing is returned and nothing is raised.
C12_InnerLoopUnbounded ==
  [][Stuck => (Stuck' /\ loc'.i = loc.i /\ trials' = trials /\ ret' = None)]_vars

\* get_image has drawn again, with maxIter = 1, on a region of partial tiles only
C12_Witness ==
  /\ Stuck
  /\ loc.isPartial
  /\ Member("_maxIter") = 1

\* the tile is at least as large as the sampling region in one dimension
Degenerate ==
  \/ RLeq(RSub(Member("_mosaicXMax"), OfInt(Member("_imgWidth"))), Member("_mosaicXMin"))
  \/ RLeq(RSub(Member("_mosaicYMax"), OfInt(Member("_imgHeight"))), Member("_mosaicYMin"))

\* C13: when the tile is at least as large as the sampling region in a dimension,
\* get_image never has a rectangle, a trial or a tile, and its next step from the
\* loop or from the slice is to raise an error.
C13_DegenerateRegionFails ==
  /\ []((call.fn = "get_image" /\ Degenerate) =>
         /\ pc \in {"search", "finish", "raised"}
         /\ trials = {}
         /\ pc \in {"search", "finish"} => (loc.rect = None /\ loc.bestRect = None)
         /\ pc = "raised" => ret.raised \in {"ValueError", "UnboundLocalError"})
  /\ [][(call.fn = "get_image" /\ Degenerate /\ pc \in {"search", "finish"}) =>
          (pc' = "raised" /\ trials' = {})]_vars

\* get_image drew xLeft from a proper interval and raised on the interval of yTop
C13_Witness ==
  /\ call.fn = "get_image"
  /\ Degenerate
  /\ DrawX # {}
  /\ pc = "raised"
  /\ ret.raised = "ValueError"

\* (xLeft, xRight) -> (width-1-xRight, width-1-xLeft)
HRemap(l, width) == <<l[1], width - 1 - l[4], l[3], width - 1 - l[2], l[5], l[6]>>

\* (yTop, yBottom) -> (height-1-yBottom, height-1-yTop)
VRemap(l, height) == <<l[1], l[2], height - 1 - l[5], l[4], height - 1 - l[3], l[6]>>

\* C14: on every label list and tile size, the horizontal remap followed by the
\* vertical one equals the vertical remap followed by the horizontal one, both
\* equal the labels of transform_image with flipValue 3, and class and area are
\* those of the input.
C14_FlipsCommute ==
  call.fn = "transform" =>
    LET theLabels == call.theLabels
        height == call.theImage.shape[1]
        width == call.theImage.shape[2]
        hv == [k \in 1..Len(theLabels) |-> VRemap(HRemap(theLabels[k], width), height)]
        vh == [k \in 1..Len(theLabels) |-> HRemap(VRemap(theLabels[k], height), width)]
        both == transform_image(call.theImage, theLabels, 3).theLabels
    IN  /\ Len(both) = Len(theLabels)
        /\ \A k \in 1..Len(theLabels) :
             /\ hv[k] = vh[k]
             /\ both[k] = hv[k]
             /\ both[k][1] = theLabels[k][1]
             /\ both[k][6] = theLabels[k][6]

\* transform_image has flipped two labels both ways and moved them
C14_Witness ==
  /\ call.fn = "transform"
  /\ call.flipValue = 3
  /\ Len(call.theLabels) = 2
  /\ ret.theLabels # call.theLabels

\* the trial that ended the for loop reached minLabels
Accepted ==
  /\ call.fn = "get_image"
  /\ pc = "finish"
  /\ loc.rect # None
  /\ Len(FoundAt(loc.rect[1][1], loc.rect[1][2]).outLabels) >= Member("_minLabels")

\* C15: when a trial reaches minLabels, the recorded best rectangle and labels
\* are those of that trial, and the call returns the tile of that trial with as
\* many labels as the trial found; it does not fail.
C15_AcceptedTrialReturned ==
  /\ Accepted =>
       /\ loc.bestRect = loc.rect
       /\ loc.bestLabels = Some(FoundAt(loc.rect[1][1], loc.rect[1][2]).outLabels)
  /\ (call.fn = "get_image" /\ pc \in {"done", "raised"}) =>
       \A t \in trials :
         t.numLabels >= Member("_minLabels") =>
           /\ pc = "done"
           /\ RectOfTile = t.rect
           /\ Len(ret.bestLabels) = t.numLabels

\* the second trial was accepted after a first one, elsewhere, that had found a
\* label but too few
C15_Witness ==
  /\ call.fn = "get_image"
  /\ pc = "done"
  /\ \E t, u \in trials :
       /\ u.numLabels > 0
       /\ u.numLabels < Member("_minLabels")
       /\ t.numLabels >= Member("_minLabels")
       /\ u.rect # t.rect
       /\ RectOfTile = t.rect

\* label k of the call is a candidate whose clipped area is less than its stored area
PartialAt(c, k) ==
  /\ IsCandidate(c.theLabels[k], c.xLeft, c.yTop, c.xRight, c.yBottom)
  /\ Clipped(c.theLabels[k], c.xLeft, c.yTop, c.xRight, c.yBottom).theArea < c.theLabels[k][6]

FirstPartial(c) ==
  CHOOSE k \in 1..Len(c.theLabels) : PartialAt(c, k) /\ \A j \in 1..(k - 1) : ~PartialAt(c, j)

\* isPartial is as claimed whenever get_labels_in_rectangle has returned
PartialAsClaimed ==
  /\ ret.isPartial <=>
        (call.rejectPartial /\ \E k \in 1..Len(call.theLabels) : PartialAt(call, k))
  /\ ret.isPartial =>
        ret.outLabels =
          get_labels_in_rectangle(SubSeq(call.theLabels, 1, FirstPartial(call) - 1),
                                  call.xLeft, call.yTop, call.xRight, call.yBottom,
                                  call.minPct, call.rejectPartial).outLabels
  /\ ~call.rejectPartial => ~ret.isPartial

\* C16: get_labels_in_rectangle returns, with isPartial true if and only if
\* rejectPartial is true and some candidate label has a clipped area less than
\* its stored area; the scan then stops at the first such label; with
\* rejectPartial false isPartial is false for every input.
C16_PartialIffCutCandidate ==
  call.fn = "clip" => (ret.raised = "none" /\ PartialAsClaimed)

\* the clipped area of label l in the rectangle of call c
ClippedArea(c, l) ==
  (Min(c.xRight - c.xLeft, l[4] - c.xLeft) - Max(0, l[2] - c.xLeft))
    * (Min(c.yBottom - c.yTop, l[5] - c.yTop) - Max(0, l[3] - c.yTop))

\* label l is a candidate with clippedArea / label.area >= minAreaRatio
KeptLabel(c, l) ==
  /\ IsCandidate(l, c.xLeft, c.yTop, c.xRight, c.yBottom)
  /\ l[6] # 0
  /\ IF l[6] > 0
     THEN ClippedArea(c, l) * c.minPct[2] >= c.minPct[1] * l[6]
     ELSE ClippedArea(c, l) * c.minPct[2] <= c.minPct[1] * l[6]

\* the kept labels in input order, clipped and relative to the rectangle
KeptSubsequence(c) ==
  LET kept == SelectSeq(c.theLabels, LAMBDA l : KeptLabel(c, l))
  IN  [k \in 1..Len(kept) |->
         <<kept[k][1], Max(0, kept[k][2] - c.xLeft), Max(0, kept[k][3] - c.yTop),
           Min(c.xRight - c.xLeft, kept[k][4] - c.xLeft),
           Min(c.yBottom - c.yTop, kept[k][5] - c.yTop), ClippedArea(c, kept[k])>>]

NoShortCircuit ==
  ~call.rejectPartial \/ ~\E k \in 1..Len(call.theLabels) : PartialAt(call, k)

\* C17: when rejectPartial is false or no candidate is partial,
\* get_labels_in_rectangle outputs exactly the candidates whose
\* clippedArea / label.area >= minAreaRatio, in input order, each with its class,
\* its box clipped to the rectangle and relative to it, and the clipped area.
C17_OutputIsKeptSubsequence ==
  (call.fn = "clip" /\ NoShortCircuit) =>
    (ret.raised = "none" /\ ret.outLabels = KeptSubsequence(call))

\* label l lies within a tile of the given shape (rows, columns)
WithinTile(l, shape) ==
  /\ 0 <= l[2] /\ l[2] <= l[4] /\ l[4] <= shape[2]
  /\ 0 <= l[3] /\ l[3] <= l[5] /\ l[5] <= shape[1]

\* C18: every label that transform_image outputs for the labels of
\* get_labels_in_rectangle, for every flipValue in 0..3, has
\* 0 <= xLeft <= xRight <= tileWidth and 0 <= yTop <= yBottom <= tileHeight.
C18_FlippedLabelsWithinTile ==
  call.fn = "transform" =>
    \A l \in Range(ret.theLabels) : WithinTile(l, call.theImage.shape)


==========================================================================
